---- MODULE Spec2Model ----
(***************************************************************************)
(* The AirQ authentication backend (Express + Mongoose): the User          *)
(* collection, the three handlers POST /api/auth/register,                 *)
(* POST /api/auth/login and GET /api/auth/me, and the clock that token     *)
(* expiry is measured against.                                             *)
(*                                                                         *)
(* Strings are sequences of one-character strings, so that trim,           *)
(* toLowerCase, minlength and bcrypt's 72-byte input limit are computed.   *)
(* A field missing from a JSON body and the empty string are both the      *)
(* empty sequence: the code takes the same branch for both everywhere      *)
(* (`!email`, Mongoose's `required`, a filter that matches no document).   *)
(* An optional value (a token, a user object) is a sequence of length <= 1.*)
(*                                                                         *)
(* Request fields are strings or absent. The database is reachable and the *)
(* unique index that `unique: true` asks Mongoose to build exists. The     *)
(* awaits of a handler are points where other requests run: register is    *)
(* split between its findOne and its create, the only await after which    *)
(* the collection can have changed under it; login and me only read a      *)
(* collection whose documents never change, and are one step each.         *)
(***************************************************************************)
EXTENDS Integers, Sequences, FiniteSets, Bags, TLC

VARIABLES
    users,      \* the User collection, in insertion order
    now,        \* the server clock, in days
    pending,    \* register requests between their findOne and their create
    held,       \* the token the client keeps from an earlier response
    registered, \* history: the successful registrations, <<body, id>> records
    res         \* the last response sent, with the request it answers

vars == <<users, now, pending, held, registered, res>>

----------------------------------------------------------------------------
(* Bounds of the model *)

MaxTicks == 2        \* the clock advances at most this many times
MaxInFlight == 2     \* register requests suspended between findOne and create

(* Program constants *)

MinLength == 5           \* userSchema.password.minlength
BcryptMaxInput == 72     \* bcrypt reads at most 72 bytes of its input
ExpiresInDays == 30      \* expiresIn: '30d'
TickDays == 20           \* the model's clock step, in days

JWT_SECRET == "your_jwt_secret_key"

----------------------------------------------------------------------------
(* Strings *)

Min(a, b) == IF a <= b THEN a ELSE b

Repeat(c, n) == [i \in 1..n |-> c]

ToLowerChar(c) == CASE c = "A" -> "a" [] c = "B" -> "b" [] OTHER -> c

ToLowerCase(s) == [i \in 1..Len(s) |-> ToLowerChar(s[i])]

RECURSIVE TrimStart(_)
TrimStart(s) == IF s # <<>> /\ Head(s) = " " THEN TrimStart(Tail(s)) ELSE s

RECURSIVE TrimEnd(_)
TrimEnd(s) ==
    IF s # <<>> /\ s[Len(s)] = " " THEN TrimEnd(SubSeq(s, 1, Len(s) - 1)) ELSE s

Trim(s) == TrimEnd(TrimStart(s))

----------------------------------------------------------------------------
(* The user schema *)

\* email: lowercase: true, trim: true (setters, run on documents and on
\* query filters alike)
EmailSetters(e) == ToLowerCase(Trim(e))

\* firstName / lastName: trim: true
NameSetters(n) == Trim(n)

\* new User(req.body): the body's role is copied when it has one
NewUserFromBody(body) ==
    [firstName |-> NameSetters(body.firstName),
     lastName  |-> NameSetters(body.lastName),
     email     |-> EmailSetters(body.email),
     password  |-> body.password,
     role      |-> IF body.role = <<>> THEN "user" ELSE "admin"]

\* new User({firstName, lastName, email, password}): the setters are applied and
\* role takes its default; the body's other fields are not copied.
NewUser(body) ==
    [firstName |-> NameSetters(body.firstName),
     lastName  |-> NameSetters(body.lastName),
     email     |-> EmailSetters(body.email),
     password  |-> body.password,
     role      |-> "user"]

\* One clause of a ValidationError's message. A built-in validator's message
\* interpolates the offending value ({VALUE}); the schema's custom `required`
\* messages do not.
Clause(path, kind, value) == [path |-> path, kind |-> kind, value |-> value]

RequiredClause(doc, path) ==
    IF doc[path] = <<>> THEN <<Clause(path, "required", <<>>)>> ELSE <<>>

\* password: required, then minlength: 5 (the first failing validator of a
\* path is the one reported). The default minlength message is
\* "Path `password` (`{VALUE}`) is shorter than the minimum allowed length (5)."
PasswordClause(doc) ==
    IF doc.password = <<>> THEN <<Clause("password", "required", <<>>)>>
    ELSE IF Len(doc.password) < MinLength
         THEN <<Clause("password", "minlength", doc.password)>>
         ELSE <<>>

\* document validation, run before the pre('save') hooks of the schema
Validate(doc) ==
    RequiredClause(doc, "firstName") \o RequiredClause(doc, "lastName")
        \o RequiredClause(doc, "email") \o PasswordClause(doc)

----------------------------------------------------------------------------
(* bcrypt *)

\* bcrypt.genSalt: the n-th salt drawn; no two hashes share a salt
GenSalt(n) == n

\* bcrypt.hash(s, 10) under a fresh salt: the version and cost prefix, the
\* salt, and a digest that depends on the salt and on the first 72 bytes of s
\* only.
BcryptHash(s, salt) ==
    <<"$2a$10$", salt>> \o SubSeq(s, 1, Min(Len(s), BcryptMaxInput))

\* bcrypt.compare(s, hash): hash s under the salt stored in hash
BcryptCompare(s, hash) == BcryptHash(s, hash[2]) = hash

\* a save with the hook not run: the password is stored as submitted
PreSaveSkipped(doc, salt) == doc

\* userSchema.pre('save'): a new document's password is always modified
PreSave(doc, salt) == [doc EXCEPT !.password = BcryptHash(doc.password, salt)]

\* comparePassword tested without await: a pending promise is truthy
comparePasswordUnawaited(user, candidatePassword) == TRUE

\* userSchema.methods.comparePassword
comparePassword(user, candidatePassword) ==
    BcryptCompare(candidatePassword, user.password)

----------------------------------------------------------------------------
(* jsonwebtoken *)

Payload(t) == [id |-> t.id, role |-> t.role, iat |-> t.iat, exp |-> t.exp]

\* HMAC-SHA256 of the encoded header and payload under a secret, as an ideal
\* MAC: equal only for equal payloads and equal secrets.
Hmac(payload, secret) ==
    <<secret, payload.id, payload.role, payload.iat, payload.exp>>

\* jwt.sign with expiresIn: '3d'
JwtSignThreeDays(claims, secret, t) ==
    LET payload == [id |-> claims.id, role |-> claims.role,
                    iat |-> t, exp |-> t + 3]
    IN  [id |-> payload.id, role |-> payload.role, iat |-> payload.iat,
         exp |-> payload.exp, sig |-> Hmac(payload, secret)]

\* jwt.sign(claims, secret, {expiresIn: '30d'}) at clock time t
JwtSign(claims, secret, t) ==
    LET payload == [id |-> claims.id, role |-> claims.role,
                    iat |-> t, exp |-> t + ExpiresInDays]
    IN  [id |-> payload.id, role |-> payload.role, iat |-> payload.iat,
         exp |-> payload.exp, sig |-> Hmac(payload, secret)]

\* jwt.decode in place of jwt.verify: the payload, unchecked
JwtDecode(part, secret, t) ==
    IF Len(part) # 1 \/ part[1].k # "jwt"
    THEN [ok |-> FALSE, error |-> "jwt malformed"]
    ELSE [ok |-> TRUE, payload |-> Payload(part[1].v)]

\* jwt.verify(token, secret) at clock time t: the decoded payload, or the
\* message of the error thrown. `part` is the string taken from the header.
JwtVerify(part, secret, t) ==
    IF Len(part) # 1 \/ part[1].k # "jwt"
    THEN [ok |-> FALSE, error |-> "jwt malformed"]
    ELSE LET tok == part[1].v IN
         IF tok.sig # Hmac(Payload(tok), secret)
         THEN [ok |-> FALSE, error |-> "invalid signature"]
         ELSE IF t >= tok.exp
              THEN [ok |-> FALSE, error |-> "jwt expired"]
              ELSE [ok |-> TRUE, payload |-> Payload(tok)]

\* userSchema.methods.generateAuthToken
generateAuthToken(user, t) ==
    JwtSign([id |-> user._id, role |-> user.role], JWT_SECRET, t)

----------------------------------------------------------------------------
(* The User model's queries *)

First(s) == IF s = <<>> THEN <<>> ELSE <<Head(s)>>

\* findOne with the filter compared as given, the setters not applied to it
findOneNoSetters(email) ==
    LET HasEmail(u) == u.email = email IN First(SelectSeq(users, HasEmail))

\* findOne with no filter: the first document of the collection
findOneAny(email) == First(users)

\* User.findOne({ email }): the filter is cast through the schema's setters
findOne(email) ==
    LET HasEmail(u) == u.email = EmailSetters(email) IN First(SelectSeq(users, HasEmail))

\* a lookup that ignores the id and returns the first stored user
findByIdFirst(id) == First(users)

\* User.findById(id)
findById(id) ==
    LET HasId(u) == u._id = id IN First(SelectSeq(users, HasId))

\* a collection without the unique index: no insert is refused
NoUniqueIndex(doc) == FALSE

\* The unique index on email (unique: true): true when the insert of doc
\* would raise E11000.
DuplicateKey(doc) == \E i \in 1..Len(users) : users[i].email = doc.email

\* User.create(body) with the salt bcrypt draws: the saved document, or the
\* message of the error thrown (a ValidationError, or the driver's E11000).
UserCreate(body, salt) ==
    LET doc == NewUser(body)
        errs == Validate(doc)
    IN  IF errs # <<>> THEN [ok |-> FALSE, error |-> errs]
        ELSE LET saved == PreSave(doc, salt) IN
             IF DuplicateKey(saved)
             THEN [ok |-> FALSE,
                   error |-> <<Clause("email", "E11000 duplicate key", saved.email)>>]
             ELSE [ok |-> TRUE,
                   doc |-> [_id       |-> Len(users) + 1,
                            firstName |-> saved.firstName,
                            lastName  |-> saved.lastName,
                            email     |-> saved.email,
                            password  |-> saved.password,
                            role      |-> saved.role]]

----------------------------------------------------------------------------
(* Responses *)

Response(op, req, status, success, message, error, token, user) ==
    [op |-> op, req |-> req, status |-> status, success |-> success,
     message |-> message, error |-> error, token |-> token, user |-> user,
     prior |-> FALSE]

\* History, not part of the JSON: whether, when the request was received, a
\* registration of the same address had already been answered with success.
WithPrior(response, prior) == [response EXCEPT !.prior = prior]

\* the `user` object of the three success responses
PublicUser(u) ==
    [id |-> u._id, firstName |-> u.firstName, lastName |-> u.lastName,
     email |-> u.email, role |-> u.role]

\* the catch block of each handler
ServerError(op, req, error) ==
    Response(op, req, 500, FALSE, "Server error", error, <<>>, <<>>)

----------------------------------------------------------------------------
(* Request inputs *)

PwShort == <<"p", "w", "0", "1">>
Pw1     == <<"p", "w", "0", "0", "1">>
PwLongA == Repeat("x", BcryptMaxInput) \o <<"a">>
PwLongB == Repeat("x", BcryptMaxInput) \o <<"b">>

Body(firstName, lastName, email, password, role) ==
    [firstName |-> firstName, lastName |-> lastName, email |-> email,
     password |-> password, role |-> role]

\* Register bodies: two spellings of one address, with a 5-character and a
\* 73-character password; a second address, with a role in the body; a
\* password below minlength; the empty body.
RegisterInputs ==
    { Body(<<" ", "A", "l">>, <<"Z">>, <<"a">>, Pw1, <<>>),
      Body(<<"A", "l">>, <<"Z">>, <<" ", "A">>, PwLongA, <<>>),
      Body(<<"B", "o">>, <<"Y", " ">>, <<"b">>, Pw1, <<"a", "d", "m", "i", "n">>),
      Body(<<"A", "l">>, <<"Z">>, <<"a">>, PwShort, <<>>),
      Body(<<>>, <<>>, <<>>, <<>>, <<>>) }

LoginInputs ==
    [email : {<<"a">>, <<" ", "A">>, <<"b">>}, password : {Pw1, PwLongB}]
    \cup { [email |-> <<>>, password |-> Pw1], [email |-> <<"a">>, password |-> <<>>] }

\* The atoms of an Authorization header: a space, a word, or a token.
Space   == [k |-> "sp", v |-> <<>>]
Word(w) == [k |-> "word", v |-> w]
Jwt(t)  == [k |-> "jwt", v |-> t]

\* What a client can make of the token t it holds without the server's secret.
Forgeries(t) ==
    { [t EXCEPT !.id = t.id + 1],
      [t EXCEPT !.role = "admin"],
      [t EXCEPT !.exp = t.exp + ExpiresInDays],
      [t EXCEPT !.sig = Hmac(Payload(t), "another_key")] }

\* Tokens signed under JWT_SECRET that this run did not issue (the secret is
\* a literal of the source): one for an id no user has.
StrayTokens ==
    { JwtSign([id |-> Len(users) + 1, role |-> "user"], JWT_SECRET, now) }

TokenInputs ==
    StrayTokens \cup
    (IF held = <<>> THEN {} ELSE {held[1]} \cup Forgeries(held[1]))

\* An absent header is the empty sequence.
HeaderInputs ==
    { <<>>, <<Word("Bearer")>>, <<Word("Bearer"), Space>>,
      <<Word("Bearer"), Space, Word("garbage")>> }
    \cup { <<Word("Bearer"), Space, Jwt(t)>> : t \in TokenInputs }
    \cup { <<Jwt(t)>> : t \in StrayTokens }

\* String.prototype.split(' '): the parts between the spaces
RECURSIVE Split(_)
Split(h) ==
    IF h = <<>> THEN << <<>> >>
    ELSE LET rest == Split(Tail(h)) IN
         IF Head(h).k = "sp" THEN << <<>> >> \o rest
         ELSE << <<Head(h)>> \o Head(rest) >> \o Tail(rest)

\* req.headers.authorization?.split(' ')[1]; undefined and '' are both <<>>
BearerToken(h) ==
    IF h = <<>> THEN <<>>
    ELSE LET parts == Split(h) IN IF Len(parts) >= 2 THEN parts[2] ELSE <<>>

----------------------------------------------------------------------------
(* The handlers *)

\* The client keeps the token of a success response, or the one it had.
Keep(token) == held' \in {held, <<token>>}

\* POST /api/auth/register, up to the existence check: answered with the
\* conflict response, or suspended before User.create.
RegisterFind(body) ==
    LET existingUser == findOne(body.email)
        prior == \E i \in 1..Len(registered) :
                     EmailSetters(registered[i].email) = EmailSetters(body.email)
    IN  IF existingUser # <<>>
        THEN /\ res' = WithPrior(Response("register", body, 400, FALSE,
                                "Email is already registered", <<>>, <<>>, <<>>),
                                prior)
             /\ UNCHANGED <<users, now, pending, held, registered>>
        ELSE /\ BagCardinality(pending) < MaxInFlight
             /\ pending' = pending (+) SetToBag({[body |-> body, prior |-> prior]})
             /\ UNCHANGED <<users, now, held, registered, res>>

\* RegisterCreate with a generateAuthToken that throws after the document
\* was saved: the catch block answers 500
RegisterCreateSignThrows(p) ==
    LET created == UserCreate(p.body, GenSalt(Len(users) + 1)) IN
    /\ BagIn(p, pending)
    /\ pending' = pending (-) SetToBag({p})
    /\ users' = IF created.ok THEN Append(users, created.doc) ELSE users
    /\ res' = WithPrior(ServerError("register", p.body,
                   IF created.ok
                   THEN <<Clause("token", "secretOrPrivateKey must have a value", <<>>)>>
                   ELSE created.error), p.prior)
    /\ UNCHANGED <<now, held, registered>>

\* RegisterCreate without the try/catch: what User.create throws escapes the
\* handler, and the request is dropped with no response sent
RegisterCreateNoCatch(p) ==
    LET created == UserCreate(p.body, GenSalt(Len(users) + 1)) IN
    /\ BagIn(p, pending)
    /\ pending' = pending (-) SetToBag({p})
    /\ IF created.ok
       THEN LET newUser == created.doc
                token == generateAuthToken(newUser, now)
            IN  /\ users' = Append(users, newUser)
                /\ registered' = Append(registered,
                       [email |-> p.body.email, password |-> p.body.password,
                        id |-> newUser._id])
                /\ res' = WithPrior(Response("register", p.body, 201, TRUE, "",
                                   <<>>, <<token>>, <<PublicUser(newUser)>>),
                                   p.prior)
                /\ Keep(token)
       ELSE UNCHANGED <<users, registered, held, res>>
    /\ UNCHANGED now

\* POST /api/auth/register, from User.create to the response
RegisterCreate(p) ==
    LET created == UserCreate(p.body, GenSalt(Len(users) + 1)) IN
    /\ BagIn(p, pending)
    /\ pending' = pending (-) SetToBag({p})
    /\ IF created.ok
       THEN LET newUser == created.doc
                token == generateAuthToken(newUser, now)
            IN  /\ users' = Append(users, newUser)
                /\ registered' = Append(registered,
                       [email |-> p.body.email, password |-> p.body.password,
                        id |-> newUser._id])
                /\ res' = WithPrior(Response("register", p.body, 201, TRUE, "",
                                   <<>>, <<token>>, <<PublicUser(newUser)>>),
                                   p.prior)
                /\ Keep(token)
       ELSE /\ res' = WithPrior(ServerError("register", p.body, created.error),
                                 p.prior)
            /\ UNCHANGED <<users, registered, held>>
    /\ UNCHANGED now

\* POST /api/auth/login
Login(req) ==
    /\ IF req.email = <<>> \/ req.password = <<>>
       THEN /\ res' = Response("login", req, 400, FALSE,
                               "Please provide email and password", <<>>, <<>>, <<>>)
            /\ UNCHANGED held
       ELSE LET user == findOne(req.email) IN
            IF user = <<>> \/ ~comparePassword(user[1], req.password)
            THEN /\ res' = Response("login", req, 401, FALSE,
                                    "Invalid email or password", <<>>, <<>>, <<>>)
                 /\ UNCHANGED held
            ELSE LET token == generateAuthToken(user[1], now) IN
                 /\ res' = Response("login", req, 200, TRUE, "", <<>>,
                                    <<token>>, <<PublicUser(user[1])>>)
                 /\ Keep(token)
    /\ UNCHANGED <<users, now, pending, registered>>

\* GET /api/auth/me
Me(header) ==
    LET token == BearerToken(header) IN
    /\ IF token = <<>>
       THEN res' = Response("me", header, 401, FALSE,
                            "Not authorized to access this route", <<>>, <<>>, <<>>)
       ELSE LET decoded == JwtVerify(token, JWT_SECRET, now) IN
            IF ~decoded.ok
            THEN res' = ServerError("me", header,
                                    <<Clause("token", decoded.error, <<>>)>>)
            ELSE LET user == findById(decoded.payload.id) IN
                 IF user = <<>>
                 THEN res' = Response("me", header, 404, FALSE, "User not found",
                                      <<>>, <<>>, <<>>)
                 ELSE res' = Response("me", header, 200, TRUE, "", <<>>, <<>>,
                                      <<PublicUser(user[1])>>)
    /\ UNCHANGED <<users, now, pending, held, registered>>

\* Time passes.
Tick ==
    /\ now < MaxTicks * TickDays
    /\ now' = now + TickDays
    /\ UNCHANGED <<users, pending, held, registered, res>>

----------------------------------------------------------------------------

Init ==
    /\ users = <<>>
    /\ now = 0
    /\ pending = EmptyBag
    /\ held = <<>>
    /\ registered = <<>>
    /\ res = Response("none", <<>>, 0, FALSE, "", <<>>, <<>>, <<>>)

Next ==
    \/ \E body \in RegisterInputs : RegisterFind(body)
    \/ \E p \in BagToSet(pending) : RegisterCreate(p)
    \/ \E req \in LoginInputs : Login(req)
    \/ \E header \in HeaderInputs : Me(header)
    \/ Tick

Spec == Init /\ [][Next]_vars

----------------------------------------------------------------------------
(* The same handlers over a database that can fail: an awaited query rejects *)
(* with the driver's error, inside the handler's try block.                  *)

DbError == <<Clause("db", "MongoNetworkError", <<>>)>>

\* register: User.findOne rejects
RegisterFindFails(body) ==
    LET prior == \E i \in 1..Len(registered) :
                     EmailSetters(registered[i].email) = EmailSetters(body.email)
    IN  /\ res' = WithPrior(ServerError("register", body, DbError), prior)
        /\ UNCHANGED <<users, now, pending, held, registered>>

\* register: User.create rejects before the document is written
RegisterCreateFails(p) ==
    /\ BagIn(p, pending)
    /\ pending' = pending (-) SetToBag({p})
    /\ res' = WithPrior(ServerError("register", p.body, DbError), p.prior)
    /\ UNCHANGED <<users, now, held, registered>>

\* login: User.findOne rejects (it is reached when both fields are present)
LoginFails(req) ==
    /\ req.email # <<>> /\ req.password # <<>>
    /\ res' = ServerError("login", req, DbError)
    /\ UNCHANGED <<users, now, pending, held, registered>>

\* me: User.findById rejects (it is reached when the token verifies)
MeFails(header) ==
    /\ BearerToken(header) # <<>>
    /\ JwtVerify(BearerToken(header), JWT_SECRET, now).ok
    /\ res' = ServerError("me", header, DbError)
    /\ UNCHANGED <<users, now, pending, held, registered>>

NextFaulty ==
    \/ Next
    \/ \E body \in RegisterInputs : RegisterFindFails(body)
    \/ \E p \in BagToSet(pending) : RegisterCreateFails(p)
    \/ \E req \in LoginInputs : LoginFails(req)
    \/ \E header \in HeaderInputs : MeFails(header)

SpecFaulty == Init /\ [][NextFaulty]_vars

----------------------------------------------------------------------------
(* Properties *)

\* A step that sends the response res' to a request of handler op.
Answers(op) == res' # res /\ res'.op = op

IsPrefix(s, t) == Len(s) <= Len(t) /\ SubSeq(t, 1, Len(s)) = s

\* C1: no response to register, login or me carries the plaintext password
\* of its request or a stored password hash, in any field, on any outcome.
C1_PasswordNeverInResponse ==
    /\ res.op \in {"register", "login"} /\ res.req.password # <<>>
         => /\ \A i \in 1..Len(res.error) : res.error[i].value # res.req.password
            /\ \A i \in 1..Len(res.user) :
                   /\ DOMAIN res.user[i] = {"id", "firstName", "lastName", "email", "role"}
                   /\ res.user[i].firstName # res.req.password
                   /\ res.user[i].lastName # res.req.password
                   /\ res.user[i].email # res.req.password
    /\ \A i \in 1..Len(users) :
           /\ \A j \in 1..Len(res.error) : res.error[j].value # users[i].password
           /\ \A j \in 1..Len(res.user) :
                  /\ res.user[j].firstName # users[i].password
                  /\ res.user[j].lastName # users[i].password
                  /\ res.user[j].email # users[i].password

\* C2: a register request received after a registration of the same address
\* was answered with success gets the conflict response (400, success=false,
\* 'Email is already registered'), no token, and the collection is unchanged.
C2_SecondRegisterConflicts ==
    [][Answers("register") /\ res'.prior
         => /\ res'.status = 400
            /\ res'.success = FALSE
            /\ res'.message = "Email is already registered"
            /\ res'.token = <<>>
            /\ users' = users]_vars

C2_Witness ==
    /\ res.op = "register" /\ res.prior /\ res.status = 400
    /\ \E i \in 1..Len(registered) :
           /\ registered[i].email # res.req.email
           /\ EmailSetters(registered[i].email) = EmailSetters(res.req.email)

\* C3: in every reachable state no two stored users have the same email.
C3_EmailUnique ==
    \A i, j \in 1..Len(users) : i # j => users[i].email # users[j].email

\* Two registrations of one address were both suspended before User.create;
\* one was stored and the other's insert was refused by the unique index.
C3_Witness ==
    /\ res.op = "register" /\ res.status = 500 /\ ~res.prior
    /\ \E i \in 1..Len(res.error) : res.error[i].kind = "E11000 duplicate key"
    /\ \E i \in 1..Len(users) : users[i].email = EmailSetters(res.req.email)

\* The token of an Authorization header "Bearer <token>", when it is one.
Presented(h) == BearerToken(h)[1].v
PresentsToken(h) == BearerToken(h) # <<>> /\ Len(BearerToken(h)) = 1
                        /\ BearerToken(h)[1].k = "jwt"

Bearer(t) == <<Word("Bearer"), Space, Jwt(t)>>

StoredWith(email) ==
    { i \in 1..Len(users) : users[i].email = EmailSetters(email) }

BcryptInput(s) == SubSeq(s, 1, Min(Len(s), BcryptMaxInput))

\* C4 as stated: login answers 401 when a field is missing, when no stored
\* user has the email, or when the password does not match; it answers 200
\* with a token only for a stored user's email and registered password.
C4_LoginFailsWith401 ==
    [][Answers("login")
         => LET r == res'
                registeredWith ==
                    { i \in 1..Len(registered) :
                        /\ EmailSetters(registered[i].email) = EmailSetters(r.req.email)
                        /\ registered[i].password = r.req.password }
            IN  /\ (\/ r.req.email = <<>> \/ r.req.password = <<>>
                    \/ StoredWith(r.req.email) = {}
                    \/ registeredWith = {}) => r.status = 401
                /\ r.status = 200
                     => /\ Len(r.token) = 1
                        /\ StoredWith(r.req.email) # {}
                        /\ registeredWith # {}]_vars

\* C4, amended: a missing field is answered 400; no stored user for the
\* address (trimmed, lower-cased) or a password that bcrypt does not match is
\* answered 401; 200 with a token is answered only when a stored user has
\* that address and the password agrees with the registered one on the
\* first 72 characters, and then always.
C4_LoginOutcomes ==
    [][Answers("login")
         => LET r == res'
                missing == r.req.email = <<>> \/ r.req.password = <<>>
                matches ==
                    { i \in 1..Len(registered) :
                        /\ EmailSetters(registered[i].email) = EmailSetters(r.req.email)
                        /\ BcryptInput(registered[i].password) = BcryptInput(r.req.password) }
            IN  /\ missing <=> r.status = 400
                /\ ~missing /\ (StoredWith(r.req.email) = {} \/ matches = {})
                     <=> r.status = 401
                /\ ~missing /\ StoredWith(r.req.email) # {} /\ matches # {}
                     <=> r.status = 200
                /\ r.status = 200 <=> r.success /\ Len(r.token) = 1
                /\ r.status = 400 => r.message = "Please provide email and password"
                /\ r.status = 401 => r.message = "Invalid email or password"]_vars

\* A login with a password that differs from the registered one after the
\* 72nd character is answered 200.
C4_Witness ==
    /\ res.op = "login" /\ res.status = 200
    /\ \E i \in 1..Len(registered) :
           /\ EmailSetters(registered[i].email) = EmailSetters(res.req.email)
           /\ registered[i].password # res.req.password

\* C5: a token whose signature does not verify under JWT_SECRET, or whose
\* expiry has passed, never gets the success response or any user fields
\* from GET /api/auth/me.
C5_BadTokenRejected ==
    [][Answers("me") /\ PresentsToken(res'.req)
         => LET t == Presented(res'.req) IN
            (t.sig # Hmac(Payload(t), JWT_SECRET) \/ now >= t.exp)
                => /\ res'.status # 200
                   /\ res'.success = FALSE
                   /\ res'.user = <<>>]_vars

\* The client presented the token it holds with the id changed.
C5_Witness ==
    /\ res.op = "me" /\ PresentsToken(res.req) /\ held # <<>>
    /\ Presented(res.req) = [held[1] EXCEPT !.id = held[1].id + 1]
    /\ Presented(res.req).id \in {users[i]._id : i \in 1..Len(users)}
    /\ res.status = 500

\* C6: session lookup answers 200 with the public user fields when the
\* token verifies and the user exists, and 404 or 401 in every other case,
\* never another status.
C6_SessionLookupOutcomes ==
    res.op = "me" =>
        /\ res.status \in {200, 401, 404}
        /\ res.status = 200 <=> Len(res.user) = 1

\* C7: the token of a successful login carries the id that the registration
\* of that address returned (the id of the login response's user too) and
\* the stored role of that user.
C7_LoginTokenIsRegisteredId ==
    res.op = "login" /\ res.status = 200 =>
        /\ Len(res.token) = 1 /\ Len(res.user) = 1
        /\ res.token[1].id = res.user[1].id
        /\ \E i \in 1..Len(registered) :
               EmailSetters(registered[i].email) = EmailSetters(res.req.email)
        /\ \A i \in 1..Len(registered) :
               EmailSetters(registered[i].email) = EmailSetters(res.req.email)
                   => registered[i].id = res.token[1].id
        /\ \E j \in 1..Len(users) : users[j]._id = res.token[1].id
        /\ \A j \in 1..Len(users) :
               users[j]._id = res.token[1].id => users[j].role = res.token[1].role

\* The second registered user logged in under another spelling of the
\* address they registered.
C7_Witness ==
    /\ res.op = "login" /\ res.status = 200 /\ Len(users) = 2
    /\ res.token[1].id = 2
    /\ \E i \in 1..Len(registered) :
           /\ registered[i].id = 2
           /\ registered[i].email # res.req.email

\* C8: a registration whose fields are valid and whose address is not stored
\* is answered 201; a registration answered 201 added exactly one user, whose
\* stored password is the bcrypt hash of the submitted one and not the
\* submitted one, and carries success=true, a token signed for the new id, and
\* the new user's id, firstName, lastName, email and role.
C8_SuccessfulRegistration ==
    [][Answers("register")
         => LET r == res'
                ok == Validate(NewUser(r.req)) = <<>> /\ StoredWith(r.req.email) = {}
            IN  /\ ok <=> r.status = 201
                /\ r.status = 201
                     => /\ Len(users') = Len(users) + 1
                        /\ SubSeq(users', 1, Len(users)) = users
                        /\ LET u == users'[Len(users')] IN
                           /\ u.password = BcryptHash(r.req.password, u.password[2])
                           /\ u.password # r.req.password
                           /\ u.email = EmailSetters(r.req.email)
                           /\ u.firstName = NameSetters(r.req.firstName)
                           /\ u.lastName = NameSetters(r.req.lastName)
                           /\ \A i \in 1..Len(users) : users[i]._id # u._id
                           /\ r.success = TRUE
                           /\ Len(r.token) = 1
                           /\ r.token[1].id = u._id
                           /\ r.token[1].sig = Hmac(Payload(r.token[1]), JWT_SECRET)
                           /\ r.user = <<[id |-> u._id, firstName |-> u.firstName,
                                          lastName |-> u.lastName, email |-> u.email,
                                          role |-> u.role]>>]_vars

\* A second user was registered, with names and address that the setters
\* changed.
C8_Witness ==
    /\ res.op = "register" /\ res.status = 201 /\ Len(users) = 2
    /\ res.user[1].id = 2
    /\ res.user[1].email # res.req.email
    /\ users[2].password = BcryptHash(res.req.password, users[2].password[2])

\* C9: users are created by a registration answered 201 and by nothing
\* else, and are never updated or deleted: every step keeps the stored users
\* as they are, adds at most one, and adds one only with a 201 to register.
C9_UsersOnlyCreatedOnRegistration ==
    [][/\ IsPrefix(users, users')
       /\ Len(users') <= Len(users) + 1
       /\ users' # users => Answers("register") /\ res'.status = 201
       /\ Answers("login") \/ Answers("me") => users' = users
       /\ Answers("register") /\ res'.status # 201 => users' = users]_vars

\* Two users are stored, as their registrations returned them, and a later
\* registration was answered 500 without touching them.
C9_Witness ==
    /\ Len(users) = 2 /\ Len(registered) = 2
    /\ res.op = "register" /\ res.status = 500
    /\ \A i \in 1..2 : users[i]._id = registered[i].id

\* C10: a token is issued with the clock time of its response and is
\* accepted by GET /api/auth/me at any time before that time plus 30 days and
\* not accepted at any time after it, whatever was issued in between.
C10_TokenExpiresAfter30Days ==
    [][/\ res' # res /\ Len(res'.token) = 1
         => /\ res'.token[1].iat = now
            /\ res'.token[1].sig = Hmac(Payload(res'.token[1]), JWT_SECRET)
       /\ Answers("me") /\ held # <<>> /\ res'.req = Bearer(held[1])
         => /\ now < held[1].iat + ExpiresInDays
              => res'.status = 200 /\ res'.user[1].id = held[1].id
            /\ now > held[1].iat + ExpiresInDays
              => res'.status = 500 /\ res'.user = <<>>]_vars

\* The token the client holds was refused as expired, while a token issued
\* later for the same user would still be accepted.
C10_Witness ==
    /\ res.op = "me" /\ held # <<>> /\ res.req = Bearer(held[1])
    /\ res.status = 500 /\ res.error[1].kind = "jwt expired"
    /\ now > held[1].iat + ExpiresInDays
    /\ now < TickDays + ExpiresInDays

\* The response res' answers request req of handler op in the envelope of
\* the API: a success status with success=true, or a failure status with
\* success=false and a message.
Replies(op, req) ==
    /\ res'.op = op /\ res'.req = req
    /\ res'.status \in {200, 201, 400, 401, 404, 500}
    /\ res'.success <=> res'.status \in {200, 201}
    /\ ~res'.success => res'.message # ""

InFlight(bag) == BagCardinality(bag)

\* C11: every request is answered exactly once, whichever step fails. Every
\* handler step answers one request or suspends one register request
\* without a response; a suspended request leaves the suspended
\* requests only in the step that sends its response, whatever User.create
\* threw. Every answer is 200/201 with success=true, or 400/401/404/500 with
\* success=false and a message.
C11_AnsweredExactlyOnce ==
    [][/\ InFlight(pending') > InFlight(pending)
            => /\ res' = res
               /\ \E p \in BagToSet(pending') :
                      pending' = pending (+) SetToBag({p})
       /\ InFlight(pending') < InFlight(pending)
            => \E p \in BagToSet(pending) :
                   /\ pending' = pending (-) SetToBag({p})
                   /\ Replies("register", p.body)
       /\ InFlight(pending') = InFlight(pending)
            => /\ pending' = pending
               /\ res' # res
                    => \E op \in {"register", "login", "me"} :
                           Replies(op, res'.req)]_vars

\* A request suspended before User.create was answered 500 after the
\* database failed under it, and left the suspended requests.
C11_Witness ==
    /\ res.op = "register" /\ res.status = 500 /\ res.error = DbError
    /\ res.success = FALSE /\ res.message = "Server error"
    /\ Len(users) = 1
    /\ StoredWith(res.req.email) = {}
    /\ Validate(NewUser(res.req)) = <<>>

\* C12: when two valid register requests for one address not yet stored are
\* both suspended between the existence check and User.create, the one that
\* creates first is answered 201 with a token and stores the one user of
\* that address, and the other stores nothing and is answered with the
\* conflict response of a sequential second attempt, 400 'Email is already
\* registered'.
C12_RaceLoserGetsConflict ==
    [][\A p \in BagToSet(pending) :
           /\ pending' = pending (-) SetToBag({p})
           /\ Validate(NewUser(p.body)) = <<>>
           => IF StoredWith(p.body.email) = {}
              THEN /\ res'.status = 201 /\ res'.success
                   /\ Len(res'.token) = 1
                   /\ Len(users') = Len(users) + 1
                   /\ Cardinality({ i \in 1..Len(users') :
                           users'[i].email = EmailSetters(p.body.email) }) = 1
              ELSE /\ users' = users
                   /\ ~res'.success /\ res'.token = <<>>
                   /\ res'.status = 400
                   /\ res'.message = "Email is already registered"]_vars

\* C13: token round trip. The token of a successful register or login
\* carries the id of the stored user that the same response returns. While
\* it is unexpired, presenting it unmodified as 'Bearer <token>' to GET
\* /api/auth/me is answered 200 with the id, firstName, lastName, email and
\* role of the stored user it was issued for; no token the server issued is
\* ever answered 404 'User not found'.
C13_TokenRoundTrip ==
    /\ res.op \in {"register", "login"} /\ res.success =>
           /\ Len(res.token) = 1 /\ Len(res.user) = 1
           /\ res.token[1].id = res.user[1].id
           /\ \E i \in 1..Len(users) :
                  /\ users[i]._id = res.token[1].id
                  /\ res.user[1] = PublicUser(users[i])
    /\ held # <<>> =>
           Cardinality({ i \in 1..Len(users) : users[i]._id = held[1].id }) = 1
    /\ res.op = "me" /\ held # <<>> /\ res.req = Bearer(held[1]) =>
           /\ res.status # 404
           /\ now < held[1].exp =>
                  /\ res.status = 200 /\ res.success
                  /\ \E i \in 1..Len(users) :
                         /\ users[i]._id = held[1].id
                         /\ res.user = <<PublicUser(users[i])>>

\* The second user's token, presented some days after it was issued, was
\* answered with the second user.
C13_Witness ==
    /\ res.op = "me" /\ res.status = 200
    /\ held # <<>> /\ res.req = Bearer(held[1])
    /\ Len(users) = 2 /\ held[1].id = 2 /\ res.user[1].id = 2
    /\ res.user[1].email = users[2].email
    /\ now > held[1].iat /\ now < held[1].exp

\* C14: no privilege escalation through the API. Every stored user has role
\* 'user', and so has every token issued and every user object returned by
\* register, login or me, also when the register body carried role 'admin'.
C14_NoPrivilegeEscalation ==
    /\ \A i \in 1..Len(users) : users[i].role = "user"
    /\ \A i \in 1..Len(res.token) : res.token[i].role = "user"
    /\ \A i \in 1..Len(res.user) : res.user[i].role = "user"
    /\ \A i \in 1..Len(held) : held[i].role = "user"

\* A registration whose body carried role 'admin' was answered 201 with a
\* user and a token of role 'user'.
C14_Witness ==
    /\ res.op = "register" /\ res.status = 201
    /\ res.req.role = <<"a", "d", "m", "i", "n">>
    /\ res.user[1].role = "user" /\ res.token[1].role = "user"
    /\ users[res.user[1].id].role = "user"

====
